---- MODULE Spec2Model ----
(***************************************************************************)
(* Task Management API: the request handlers (app/api/v1/endpoints/       *)
(* tasks.py), the service (app/services/task_service.py), the SQLAlchemy  *)
(* repository (app/repositories/task_repository.py), the request models   *)
(* (app/models/domain.py) and the tasks table (app/models/database.py).   *)
(* Requests are handled one at a time; every action is one whole request. *)
(***************************************************************************)
EXTENDS Integers, Sequences, FiniteSets, TLC

\* ---------------------------------------------------------------- bounds
\* Largest primary key the model lets the table reach.
MaxId == 3
\* Rows the table holds at once under Spec, whose request bodies range over
\* every kind of field value.
MaxRows == 1
\* Largest reading of the clock (datetime.now) in a behaviour.
MaxClock == 1

\* ------------------------------------------------------ values and inputs
\* A JSON key that is not in the request body / a query parameter not given.
Absent == "<absent>"
\* JSON null, Python None, SQL NULL.
Null == "<null>"

\* app/models/enums.py (values as used by the tests and the data model).
TaskStatus == {"pending", "in_progress", "completed"}
TaskPriority == {"low", "medium", "high"}

\* The fields of a request body.
FieldNames == {"title", "description", "status", "priority"}

\* Request bodies of POST /tasks under Spec, field by field.
CreateBodies ==
    [title : {Absent, Null, "", "A"},
     description : {Absent, Null, "d"},
     status : {Absent, Null, "completed", "invalid"},
     priority : {Absent, "high", "urgent"}]
\* Request bodies of PUT /tasks/{task_id} under Spec.
UpdateBodies ==
    [title : {Absent, Null, "", "A"},
     description : {Absent, Null, "d"},
     status : {Absent, Null, "in_progress", "invalid"},
     priority : {Absent, Null, "low", "urgent"}]
\* Query strings of GET /tasks under Spec.
Queries ==
    [status : {Absent, "pending", "invalid"}, priority : {Absent},
     skip : {-1, 0}, limit : {0, 1, 1000, 1001}]
\* How far the clock moves between two readings.
Delays == 0..1

\* Requests under SpecQ: several rows that differ in status and priority.
QCreateBodies ==
    [title : {"A"}, description : {Absent},
     status : {Absent, "completed"}, priority : {Absent, "high"}]
QUpdateBodies ==
    [title : {Absent}, description : {Absent},
     status : {Absent, "pending"}, priority : {Absent}]
QQueries ==
    [status : {Absent, "pending", "completed"}, priority : {Absent, "high"},
     skip : 0..2, limit : {1, 2, 100}]

\* The body of a response or request that has none.
NoFields == [f \in FieldNames |-> Absent]

\* Requests under SpecC: two requests in flight against the same row.
CUpdateBodies ==
    [title : {Absent, "B"}, description : {Absent},
     status : {Absent, Null, "completed", "invalid"},
     priority : {Absent, "high"}]
CRequests ==
    [op : {"DELETE"}, body : {NoFields}] \cup [op : {"PUT"}, body : CUpdateBodies]

\* The threads of the server's pool that run the handlers.
Workers == {"w1", "w2"}
\* A worker with no request.
Idle ==
    [pc |-> "idle", op |-> "none", id |-> 0, body |-> NoFields, task |-> <<>>,
     session |-> "none", code |-> 0, svc |-> "none"]

\* Path parameter task_id of GET/PUT/DELETE /tasks/{task_id}.
ReqIds == 1..(MaxId + 1)
\* The same under Spec: the ids of the rows it holds, and one never created.
PathIds == 1..(MaxRows + 1)

VARIABLES
    tasks,      \* the rows of table "tasks"
    clock,      \* the latest reading of datetime.now(timezone.utc)
    last,       \* the last request and its response
    gateway,    \* the calls the last request made to repo.create / repo.update
    issued,     \* history: ids a create has returned so far
    gone,       \* history: ids deleted with 204 and not created again since
    workers     \* the requests in flight, one per worker thread

vars == <<tasks, clock, last, gateway, issued, gone, workers>>

\* ------------------------------------------------ app/models/database.py
\* get_db up to its yield: db = SessionLocal().
GetDbEnter == "open"

\* Mutant of GetDbExit: db.close() after the yield without try/finally, so an
\* exception thrown into the generator skips it.
GetDbExitNoFinally(session, code) ==
    IF code \in {404, 500} THEN session ELSE "closed"

\* get_db after its yield: finally: db.close(), whatever the request's outcome.
GetDbExit(session, code) == "closed"

\* --------------------------------------------------------------- helpers
Max(S) == CHOOSE x \in S : \A y \in S : y <= x

Ids(rows) == {r.id : r \in rows}

\* ------------------------------------------------- app/models/domain.py
\* TaskCreate: title is a required str; description Optional[str] = "";
\* status and priority are enum members with defaults.
TaskCreateValid(body) ==
    /\ body.title \notin {Absent, Null}
    /\ body.status \in TaskStatus \cup {Absent}
    /\ body.priority \in TaskPriority \cup {Absent}

\* Mutant of TaskCreateDump: the first member of each enumeration as default.
TaskCreateDumpFirstMember(body) ==
    [title |-> body.title,
     description |-> IF body.description = Absent THEN "" ELSE body.description,
     status |-> IF body.status = Absent THEN "pending" ELSE body.status,
     priority |-> IF body.priority = Absent THEN "low" ELSE body.priority]

\* TaskCreate(...).model_dump(): every field, defaults filled in.
TaskCreateDump(body) ==
    [title |-> body.title,
     description |-> IF body.description = Absent THEN "" ELSE body.description,
     status |-> IF body.status = Absent THEN "pending" ELSE body.status,
     priority |-> IF body.priority = Absent THEN "medium" ELSE body.priority]

\* TaskUpdate: every field Optional, so an explicit null validates.
TaskUpdateValid(body) ==
    /\ body.status \in TaskStatus \cup {Absent, Null}
    /\ body.priority \in TaskPriority \cup {Absent, Null}

\* TaskUpdate(**body): every attribute, None where the body has no key, and
\* the set of fields the body did set (model_fields_set).
TaskUpdateParse(body) ==
    [attrs |-> [f \in FieldNames |-> IF body[f] = Absent THEN Null ELSE body[f]],
     fields_set |-> {f \in FieldNames : body[f] # Absent}]

\* Mutant of TaskUpdateDump: model_dump() without exclude_unset.
TaskUpdateDumpAll(model) == model.attrs

\* model_dump(exclude_unset=True): a dict of the fields the body did set, an
\* explicit null included.
TaskUpdateDump(model) == [f \in model.fields_set |-> model.attrs[f]]

\* TaskResponse: description is a str, so a row whose description is NULL
\* fails response validation.
TaskResponseValid(row) == row.description # Null

\* ----------------------------------------------- app/models/database.py
\* Columns declared nullable=False.
NotNullColumns == {"title", "status", "priority"}

NotNullOk(row) == \A c \in NotNullColumns : row[c] # Null

\* Integer primary key of a SQLite table: the rowid, one more than the
\* largest rowid in the table.
NextId(rows) == IF rows = {} THEN 1 ELSE Max(Ids(rows)) + 1

\* Mutant of InsertRow: the default of updated_at read before the default of
\* created_at.
InsertRowUpdatedFirst(id, data, t1, t2) ==
    [id |-> id,
     title |-> data.title,
     description |-> IF data.description = Null THEN "" ELSE data.description,
     status |-> data.status,
     priority |-> data.priority,
     created_at |-> t2,
     updated_at |-> t1]

\* The INSERT of a TaskDB: a None attribute is left out of the statement, so
\* the column default applies (description default "").
InsertRow(id, data, t1, t2) ==
    [id |-> id,
     title |-> data.title,
     description |-> IF data.description = Null THEN "" ELSE data.description,
     status |-> data.status,
     priority |-> data.priority,
     created_at |-> t1,
     updated_at |-> t2]

\* ---------------------------------- app/repositories/task_repository.py
\* Mutant of RepoGet: .first() of the query without the filter on id.
RepoGetUnfiltered(rows, id) ==
    {r \in rows : \A o \in rows : r.id <= o.id}

\* repo.get: the rows with that id (none, or the one row).
RepoGet(rows, id) == {r \in rows : r.id = id}

\* repo.update, the setattr loop over the keys of fields and the refresh of
\* updated_at.
SetAttrs(row, fields, now) ==
    LET Attr(k) == IF k \in DOMAIN fields THEN fields[k] ELSE row[k]
    IN  [id |-> row.id,
         title |-> Attr("title"),
         description |-> Attr("description"),
         status |-> Attr("status"),
         priority |-> Attr("priority"),
         created_at |-> row.created_at,
         updated_at |-> now]

\* Mutant of RepoDelete: the DELETE is never committed.
RepoDeleteUncommitted(rows, row) == rows

\* repo.delete: DELETE of the row with the object's primary key, and commit.
RepoDelete(rows, row) == {r \in rows : r.id # row.id}

\* The columns of table "tasks".
Columns ==
    {"id", "title", "description", "status", "priority", "created_at",
     "updated_at"}

\* Mutant of DirtyColumns: the UPDATE writes every attribute of the object.
DirtyColumnsAll(fetched, attrs) == Columns

\* The attributes of a loaded object the flush writes: those whose value
\* differs from the value loaded.
DirtyColumns(fetched, attrs) == {c \in Columns : attrs[c] # fetched[c]}

\* The commit of repo.update: UPDATE tasks SET <dirty columns> WHERE id = the
\* object's primary key, applied to the row as it is in the table now.
FlushUpdate(rows, attrs, dirty) ==
    {IF r.id = attrs.id
     THEN [c \in Columns |-> IF c \in dirty THEN attrs[c] ELSE r[c]]
     ELSE r : r \in rows}

\* A query without ORDER BY scans the table in rowid order.
RECURSIVE Scan(_)
Scan(rows) ==
    IF rows = {} THEN <<>>
    ELSE LET first == CHOOSE r \in rows : \A o \in rows : r.id <= o.id
         IN  <<first>> \o Scan(rows \ {first})

\* Mutant of Matches: a row passes when either filter accepts it.
MatchesEither(row, status, priority) ==
    \/ status = Null /\ priority = Null
    \/ status # Null /\ row.status = status
    \/ priority # Null /\ row.priority = priority

\* The WHERE clause of repo.list: a filter that is None constrains nothing.
Matches(row, status, priority) ==
    /\ status # Null => row.status = status
    /\ priority # Null => row.priority = priority

\* .offset(skip).limit(limit) of a result sequence.
OffsetLimit(seq, skip, limit) ==
    LET hi == IF skip + limit < Len(seq) THEN skip + limit ELSE Len(seq)
    IN  SubSeq(seq, skip + 1, hi)

\* repo.list: the optional filters, then offset and limit.
RepoList(rows, status, priority, skip, limit) ==
    LET Keep(r) == Matches(r, status, priority)
    IN  OffsetLimit(SelectSeq(Scan(rows), Keep), skip, limit)

\* Mutant of GroupCount: one key for every value of the enumeration, with a
\* count of zero where no row holds it.
GroupCountZeroFilled(seq, col) ==
    [k \in IF col = "status" THEN TaskStatus ELSE TaskPriority |->
        Cardinality({i \in 1..Len(seq) : seq[i][col] = k})]

\* SELECT col, count(id) ... GROUP BY col, folded over the scanned rows.
RECURSIVE GroupCount(_, _)
GroupCount(seq, col) ==
    IF seq = <<>> THEN <<>>
    ELSE LET rest == GroupCount(Tail(seq), col)
             key == Head(seq)[col]
         IN  IF key \in DOMAIN rest
             THEN [rest EXCEPT ![key] = @ + 1]
             ELSE [k \in DOMAIN rest \cup {key} |->
                     IF k = key THEN 1 ELSE rest[k]]

\* repo.all: every row, in the order of the scan.
RepoAll(rows) == Scan(rows)

\* repo.stats.
RepoStats(rows) ==
    [total_tasks |-> Len(Scan(rows)),
     by_status |-> GroupCount(Scan(rows), "status"),
     by_priority |-> GroupCount(Scan(rows), "priority")]

\* ------------------------------------- app/api/v1/endpoints/tasks.py
\* Query(0, ge=0) and Query(100, ge=1, le=1000).
SkipMin == 0
LimitMin == 1
LimitMax == 1000

\* Mutant of QueryValid: limit without its upper bound.
QueryValidNoUpperBound(q) ==
    /\ q.status \in TaskStatus \cup {Absent}
    /\ q.priority \in TaskPriority \cup {Absent}
    /\ q.skip >= SkipMin
    /\ q.limit >= LimitMin

\* The query parameters of GET /tasks.
QueryValid(q) ==
    /\ q.status \in TaskStatus \cup {Absent}
    /\ q.priority \in TaskPriority \cup {Absent}
    /\ q.skip >= SkipMin
    /\ q.limit >= LimitMin
    /\ q.limit <= LimitMax

\* The header row export_tasks_csv writes first.
CsvHeader ==
    <<"id", "title", "description", "status", "priority", "created_at",
      "updated_at">>

\* datetime.isoformat() of a timestamp, as text.
IsoFormat(t) == "T" \o ToString(t)

\* What csv.writer writes for one value: None as the empty field, any other
\* value as its text.
CsvCell(v) == IF v = Null THEN "" ELSE v

\* Mutant of CsvRow: description and title written in each other's column.
CsvRowSwapped(t) ==
    <<ToString(t.id), CsvCell(t.description), CsvCell(t.title),
      CsvCell(t.status), CsvCell(t.priority), IsoFormat(t.created_at),
      IsoFormat(t.updated_at)>>

\* The row export_tasks_csv writes for one task.
CsvRow(t) ==
    <<ToString(t.id), CsvCell(t.title), CsvCell(t.description),
      CsvCell(t.status), CsvCell(t.priority), IsoFormat(t.created_at),
      IsoFormat(t.updated_at)>>

\* The rows of the CSV body for the tasks export_all returned.
RECURSIVE CsvRows(_)
CsvRows(seq) ==
    IF seq = <<>> THEN <<>> ELSE <<CsvRow(Head(seq))>> \o CsvRows(Tail(seq))

\* ----------------------------------------- app/services/task_service.py
\* service.export_all.
ExportAll(rows) == RepoAll(rows)

\* service.list_tasks: an enum member becomes its value, no filter is None.
ListTasks(rows, q) ==
    RepoList(rows,
             IF q.status = Absent THEN Null ELSE q.status,
             IF q.priority = Absent THEN Null ELSE q.priority,
             q.skip, q.limit)

\* ------------------------------------------------------------------ Init
Response(op, id, code, svc, arg, ret) ==
    [op |-> op, id |-> id, code |-> code, svc |-> svc, arg |-> arg, ret |-> ret]

Init ==
    /\ tasks = {}
    /\ clock = 0
    /\ last = Response("none", 0, 0, "none", NoFields, <<>>)
    /\ gateway = <<>>
    /\ issued = {}
    /\ gone = {}
    /\ workers = [w \in Workers |-> Idle]

\* --------------------------------------------------------------- actions
\* POST /tasks. d1, d2: how far the clock moves before each of the two
\* column defaults (created_at, then updated_at) reads it. room: the rows the
\* specification lets the table hold.
CreateTask(body, d1, d2, room) ==
    /\ UNCHANGED workers
    /\ IF ~TaskCreateValid(body)
       THEN /\ d1 = 0 /\ d2 = 0
            /\ last' = Response("POST", 0, 422, "none", NoFields, <<>>)
            /\ gateway' = <<>>
            /\ UNCHANGED <<tasks, clock, issued, gone>>
       ELSE LET data == TaskCreateDump(body)
                id == NextId(tasks)
                row == InsertRow(id, data, clock + d1, clock + d1 + d2)
            IN  /\ id <= MaxId
                /\ Cardinality(tasks) < room
                /\ clock + d1 + d2 <= MaxClock
                /\ tasks' = tasks \cup {row}
                /\ clock' = clock + d1 + d2
                /\ gateway' = <<[fn |-> "create", status |-> data.status,
                                 priority |-> data.priority]>>
                /\ issued' = issued \cup {id}
                /\ gone' = gone \ {id}
                /\ last' = Response("POST", id, 201, "record", body, <<row>>)

\* GET /tasks: validation of the query, service.list_tasks, and the
\* response model applied to every returned row.
GetTasks(q) ==
    /\ UNCHANGED workers
    /\ gateway' = <<>>
    /\ UNCHANGED <<tasks, clock, issued, gone>>
    /\ IF ~QueryValid(q)
       THEN last' = Response("LIST", 0, 422, "none", q, <<>>)
       ELSE LET ret == ListTasks(tasks, q)
                ok == \A k \in 1..Len(ret) : TaskResponseValid(ret[k])
            IN  last' = Response("LIST", 0, IF ok THEN 200 ELSE 500,
                                 "list", q, ret)

\* GET /tasks/stats.
GetTaskStats ==
    /\ UNCHANGED workers
    /\ gateway' = <<>>
    /\ last' = Response("STATS", 0, 200, "dict", NoFields, <<RepoStats(tasks)>>)
    /\ UNCHANGED <<tasks, clock, issued, gone>>

\* GET /tasks/export/csv: the header row, then one row per task of
\* service.export_all.
ExportTasksCsv ==
    /\ UNCHANGED workers
    /\ gateway' = <<>>
    /\ last' = Response("CSV", 0, 200, "list", NoFields,
                         <<CsvHeader>> \o CsvRows(ExportAll(tasks)))
    /\ UNCHANGED <<tasks, clock, issued, gone>>

\* GET /tasks/{task_id}.
GetTask(id) ==
    /\ UNCHANGED workers
    /\ LET found == RepoGet(tasks, id) IN
       /\ gateway' = <<>>
       /\ UNCHANGED <<tasks, clock, issued, gone>>
       /\ IF found = {}
          THEN last' = Response("GET", id, 404, "None", NoFields, <<>>)
          ELSE LET task == CHOOSE r \in found : TRUE
               IN  last' = Response("GET", id,
                                    IF TaskResponseValid(task) THEN 200 ELSE 500,
                                    "record", NoFields, <<task>>)

\* PUT /tasks/{task_id}. d: how far the clock moves before repo.update
\* reads it.
UpdateTask(id, body, d) ==
    /\ UNCHANGED workers
    /\ IF ~TaskUpdateValid(body)
       THEN /\ d = 0
            /\ last' = Response("PUT", id, 422, "none", NoFields, <<>>)
            /\ gateway' = <<>>
            /\ UNCHANGED <<tasks, clock, issued, gone>>
       ELSE IF RepoGet(tasks, id) = {}
       THEN /\ d = 0
            /\ last' = Response("PUT", id, 404, "None", NoFields, <<>>)
            /\ gateway' = <<>>
            /\ UNCHANGED <<tasks, clock, issued, gone>>
       ELSE LET task == CHOOSE r \in RepoGet(tasks, id) : TRUE
                fields == TaskUpdateDump(TaskUpdateParse(body))
                Handed(k) == IF k \in DOMAIN fields THEN fields[k] ELSE Absent
                row == SetAttrs(task, fields, clock + d)
            IN  /\ clock + d <= MaxClock
                /\ clock' = clock + d
                /\ gateway' = <<[fn |-> "update", status |-> Handed("status"),
                                 priority |-> Handed("priority")]>>
                /\ UNCHANGED <<issued, gone>>
                /\ IF NotNullOk(row)
                   THEN /\ tasks' = (tasks \ {task}) \cup {row}
                        /\ last' = Response("PUT", id,
                                            IF TaskResponseValid(row)
                                            THEN 200 ELSE 500,
                                            "record", body, <<row>>)
                   ELSE \* the commit raises IntegrityError and the session is
                        \* closed without a commit
                        /\ tasks' = tasks
                        /\ last' = Response("PUT", id, 500, "raise", NoFields,
                                         <<>>)

\* DELETE /tasks/{task_id}.
DeleteTask(id) ==
    /\ UNCHANGED workers
    /\ LET found == RepoGet(tasks, id) IN
       /\ gateway' = <<>>
       /\ UNCHANGED <<clock, issued>>
       /\ IF found = {}
          THEN /\ last' = Response("DELETE", id, 404, "False", NoFields, <<>>)
               /\ UNCHANGED <<tasks, gone>>
          ELSE /\ tasks' = RepoDelete(tasks, CHOOSE r \in found : TRUE)
               /\ gone' = gone \cup {id}
               /\ last' = Response("DELETE", id, 204, "True", NoFields, <<>>)

\* -------------------------------------------------------- specifications
\* Spec: request bodies over every kind of field value, one row at a time.
Next ==
    \/ \E body \in CreateBodies, d1 \in Delays, d2 \in Delays :
          CreateTask(body, d1, d2, MaxRows)
    \/ \E q \in Queries : GetTasks(q)
    \/ ExportTasksCsv
    \/ GetTaskStats
    \/ \E id \in PathIds : GetTask(id)
    \/ \E id \in PathIds, body \in UpdateBodies, d \in Delays :
          UpdateTask(id, body, d)
    \/ \E id \in PathIds : DeleteTask(id)

Spec == Init /\ [][Next]_vars

\* SpecQ: up to MaxId rows that differ in status and priority, the clock
\* standing still.
NextQ ==
    \/ \E body \in QCreateBodies : CreateTask(body, 0, 0, MaxId)
    \/ \E q \in QQueries : GetTasks(q)
    \/ ExportTasksCsv
    \/ GetTaskStats
    \/ \E id \in ReqIds : GetTask(id)
    \/ \E id \in ReqIds, body \in QUpdateBodies : UpdateTask(id, body, 0)
    \/ \E id \in ReqIds : DeleteTask(id)

SpecQ == Init /\ [][NextQ]_vars

\* ------------------------------------------- requests step by step (SpecC)
\* A request for a task created earlier arrives at worker w: get_service's
\* dependency get_db opens the request's own session.
Begin(w, req, id) ==
    /\ workers[w].pc = "idle"
    /\ id \in issued
    /\ workers' = [workers EXCEPT ![w] =
                      [Idle EXCEPT !.pc = "open", !.op = req.op, !.id = id,
                                   !.body = req.body, !.session = GetDbEnter]]
    /\ UNCHANGED <<tasks, clock, last, gateway, issued, gone>>

\* The request body is validated against TaskUpdate before the handler runs.
Validate(w) ==
    LET me == workers[w] IN
    /\ me.pc = "open"
    /\ workers' = [workers EXCEPT ![w] =
                      IF me.op = "PUT" /\ ~TaskUpdateValid(me.body)
                      THEN [me EXCEPT !.pc = "exit", !.code = 422]
                      ELSE [me EXCEPT !.pc = "valid"]]
    /\ UNCHANGED <<tasks, clock, last, gateway, issued, gone>>

\* First step of service.update_task / service.delete_task: repo.get loads
\* the row into the request's session; no row ends the request with 404.
Fetch(w) ==
    LET me == workers[w]
        found == RepoGet(tasks, me.id)
    IN  /\ me.pc = "valid"
        /\ workers' = [workers EXCEPT ![w] =
                          IF found = {}
                          THEN [me EXCEPT !.pc = "exit", !.code = 404,
                                          !.svc = IF me.op = "PUT" THEN "None"
                                                  ELSE "False"]
                          ELSE [me EXCEPT !.pc = "fetched",
                                          !.task = <<CHOOSE r \in found : TRUE>>]]
        /\ UNCHANGED <<tasks, clock, last, gateway, issued, gone>>

\* Second step: repo.delete, or repo.update, of the object loaded by Fetch,
\* with its commit. A DELETE that matches no row only warns and the commit
\* succeeds; an UPDATE that matches no row raises StaleDataError, and a NULL
\* in a NOT NULL column raises IntegrityError.
Write(w, d) ==
    LET me == workers[w]
        task == me.task[1]
        attrs == SetAttrs(task, TaskUpdateDump(TaskUpdateParse(me.body)),
                          clock + d)
        dirty == DirtyColumns(task, attrs)
        after == FlushUpdate(tasks, attrs, dirty)
    IN  /\ me.pc = "fetched"
        /\ UNCHANGED <<last, gateway, issued>>
        /\ IF me.op = "DELETE"
           THEN /\ d = 0
                /\ tasks' = RepoDelete(tasks, task)
                /\ gone' = gone \cup {task.id}
                /\ workers' = [workers EXCEPT ![w] =
                                  [me EXCEPT !.pc = "exit", !.code = 204,
                                             !.svc = "True"]]
                /\ UNCHANGED clock
           ELSE /\ clock + d <= MaxClock
                /\ clock' = clock + d
                /\ UNCHANGED gone
                /\ IF \/ RepoGet(tasks, task.id) = {}
                      \/ \E c \in dirty \cap NotNullColumns : attrs[c] = Null
                   THEN /\ tasks' = tasks
                        /\ workers' = [workers EXCEPT ![w] =
                                          [me EXCEPT !.pc = "exit",
                                                     !.code = 500,
                                                     !.svc = "raise"]]
                   ELSE /\ tasks' = after
                        /\ workers' = [workers EXCEPT ![w] =
                                          [me EXCEPT
                                             !.pc = "exit",
                                             !.code =
                                                IF \A r \in RepoGet(after, task.id) :
                                                      TaskResponseValid(r)
                                                THEN 200 ELSE 500,
                                             !.svc = "record"]]

\* The request ends, with a response or an exception: get_db resumes after
\* its yield.
Finish(w) ==
    LET me == workers[w] IN
    /\ me.pc = "exit"
    /\ workers' = [workers EXCEPT ![w] =
                      [me EXCEPT !.pc = "done",
                                 !.session = GetDbExit(me.session, me.code)]]
    /\ UNCHANGED <<tasks, clock, last, gateway, issued, gone>>

\* SpecC: two requests, DELETE or PUT, in flight against one stored task,
\* their fetches and commits interleaved in every order. It starts in the
\* state after POST /tasks {"title": "A"} on an empty table.
InitC ==
    LET body == [NoFields EXCEPT !.title = "A"]
        data == TaskCreateDump(body)
        row == InsertRow(NextId({}), data, 0, 0)
    IN  /\ tasks = {row}
        /\ clock = 0
        /\ last = Response("POST", row.id, 201, "record", body, <<row>>)
        /\ gateway = <<[fn |-> "create", status |-> data.status,
                        priority |-> data.priority]>>
        /\ issued = {row.id}
        /\ gone = {}
        /\ workers = [w \in Workers |-> Idle]

NextC ==
    \/ \E w \in Workers, req \in CRequests, id \in 1..MaxId : Begin(w, req, id)
    \/ \E w \in Workers : Validate(w)
    \/ \E w \in Workers : Fetch(w)
    \/ \E w \in Workers, d \in Delays : Write(w, d)
    \/ \E w \in Workers : Finish(w)

SpecC == InitC /\ [][NextC]_vars

\* The steps the server takes for the request of worker w once it arrived.
Run(w) ==
    Validate(w) \/ Fetch(w) \/ (\E d \in Delays : Write(w, d)) \/ Finish(w)

\* FairSpecC: SpecC where the server keeps running every request it
\* accepted: a handler in the thread pool is not starved for ever.
FairSpecC ==
    InitC /\ [][NextC]_vars /\ \A w \in Workers : WF_vars(Run(w))

TypeOK ==
    /\ clock \in 0..MaxClock
    /\ \A r \in tasks : r.id \in 1..MaxId
    /\ \A r, s \in tasks : r.id = s.id => r = s
    /\ \A w \in Workers :
          /\ workers[w].pc \in {"idle", "open", "valid", "fetched", "exit", "done"}
          /\ workers[w].session \in {"none", "open", "closed"}
          /\ workers[w].code \in {0, 200, 204, 404, 422, 500}
          /\ Len(workers[w].task) <= 1

\* ----------------------------------------------------------------- claims

Row(rows, id) == CHOOSE r \in rows : r.id = id

\* C1: partial-update isolation. Whenever update_task returns the updated
\* record, every field the payload does not carry keeps its prior value,
\* every field it carries holds exactly the payload's value, id and
\* created_at are unchanged and updated_at is not smaller than before.
C1_PartialUpdateIsolation ==
    [][(last'.op = "PUT" /\ last'.svc = "record") =>
          LET before == Row(tasks, last'.id)
              after == Row(tasks', last'.id)
              payload == last'.arg
          IN  /\ \A f \in FieldNames :
                    after[f] = IF payload[f] = Absent THEN before[f]
                               ELSE payload[f]
              /\ after.id = before.id
              /\ after.created_at = before.created_at
              /\ after.updated_at >= before.updated_at
              /\ last'.ret = <<after>>]_vars

\* A PUT that carried title and status only: both hold the new values, the
\* priority and description given at creation are still there.
C1_Witness ==
    /\ last.op = "PUT" /\ last.code = 200
    /\ last.arg.title = "A" /\ last.arg.status = "in_progress"
    /\ last.arg.description = Absent /\ last.arg.priority = Absent
    /\ \E r \in tasks :
          /\ r.id = last.id
          /\ r.title = "A" /\ r.status = "in_progress"
          /\ r.priority = "high" /\ r.description = "d"
          /\ r.updated_at > r.created_at

\* C2: every stored task has status and priority inside the closed sets, and
\* no value outside them is handed to repo.create or repo.update.
C2_EnumsClosed ==
    /\ \A r \in tasks : r.status \in TaskStatus /\ r.priority \in TaskPriority
    /\ \A k \in 1..Len(gateway) :
          /\ gateway[k].status \in TaskStatus \cup {Absent}
          /\ gateway[k].priority \in TaskPriority \cup {Absent}

\* C3: the description of every stored task is a text value, never NULL.
C3_DescriptionNeverNull ==
    \A r \in tasks : r.description # Null

\* C4: the title of every stored task is a non-empty text.
C4_TitleNonEmpty ==
    \A r \in tasks : r.title \notin {"", Null, Absent}

\* C5: an id that enters the table was never assigned by an earlier create,
\* only a create brings a new id into the table, and an update leaves the
\* ids of the table as they were.
C5_IdsNeverReused ==
    [][/\ \A id \in Ids(tasks') \ Ids(tasks) :
             id \notin issued /\ last'.op = "POST" /\ last'.id = id
       /\ last'.op = "PUT" => Ids(tasks') = Ids(tasks)]_vars

\* C6: delete finality. Once DELETE of an id was answered 204 and no create
\* has returned that id since, the id is not in the table and every GET and
\* DELETE of it is answered 404, the service returning None / False.
C6_DeleteFinality ==
    [][/\ gone' \cap Ids(tasks') = {}
       /\ (last'.op \in {"GET", "DELETE"} /\ last'.id \in gone) =>
             /\ last'.code = 404
             /\ last'.svc = IF last'.op = "GET" THEN "None" ELSE "False"
             /\ last'.id \in gone']_vars

\* A second DELETE of a deleted id, answered 404.
C6_Witness ==
    /\ last.op = "DELETE" /\ last.code = 404
    /\ last.id \in gone
    /\ tasks # {}

\* C7: not-found is a value without side effects. A GET, PUT or DELETE that
\* reaches its handler with an id that is not in the table is answered 404,
\* the service returning None (get_task, update_task) or False
\* (delete_task), and the table is left exactly as it was.
C7_NotFoundNoSideEffects ==
    [][(/\ last'.op \in {"GET", "PUT", "DELETE"}
        /\ last'.svc # "none"
        /\ last'.id \notin Ids(tasks)) =>
          /\ last'.code = 404
          /\ last'.svc = IF last'.op = "DELETE" THEN "False" ELSE "None"
          /\ tasks' = tasks
          /\ gateway' = <<>>]_vars

\* A PUT of an id that is not in the table, answered 404 while another row,
\* already updated once, is stored.
C7_Witness ==
    /\ last.op = "PUT" /\ last.code = 404
    /\ last.id \notin Ids(tasks)
    /\ \E r \in tasks : r.updated_at > r.created_at

Matching(rows, q) ==
    {r \in rows : /\ q.status # Absent => r.status = q.status
                  /\ q.priority # Absent => r.priority = q.priority}

Position(rows, q, r) == Cardinality({m \in Matching(rows, q) : m.id < r.id})

C9_FilterCorrectness ==
    (last.op = "LIST" /\ last.svc = "list") =>
        LET q == last.arg
            ret == last.ret
            page == {r \in Matching(tasks, q) :
                        /\ Position(tasks, q, r) >= q.skip
                        /\ Position(tasks, q, r) < q.skip + q.limit}
        IN  /\ \A k \in 1..Len(ret) : ret[k] \in Matching(tasks, q)
            /\ Len(ret) <= q.limit
            /\ {ret[k] : k \in 1..Len(ret)} = page
            /\ Len(ret) = Cardinality(page)
            /\ \A j, k \in 1..Len(ret) : j < k => ret[j].id < ret[k].id

\* Both filters given, skip 1: of two matching rows the second is returned,
\* and a third row that does not match is left out.
C9_Witness ==
    /\ last.op = "LIST" /\ last.code = 200
    /\ last.arg.status = "pending" /\ last.arg.priority = "high"
    /\ last.arg.skip = 1 /\ last.arg.limit = 1
    /\ Len(last.ret) = 1
    /\ Cardinality(Matching(tasks, last.arg)) = 2
    /\ Cardinality(tasks) = 3

\* C10: stats consistency. total_tasks is the number of stored tasks;
\* by_status and by_priority map exactly the values some task holds to the
\* number of tasks holding them (so no key has a zero count), and the counts
\* of each mapping add up to total_tasks.
RECURSIVE SumValues(_)
SumValues(f) ==
    IF DOMAIN f = {} THEN 0
    ELSE LET k == CHOOSE x \in DOMAIN f : TRUE
         IN  f[k] + SumValues([x \in DOMAIN f \ {k} |-> f[x]])

C10_StatsConsistency ==
    last.op = "STATS" =>
        LET st == last.ret[1] IN
        /\ st.total_tasks = Cardinality(tasks)
        /\ DOMAIN st.by_status = {r.status : r \in tasks}
        /\ DOMAIN st.by_priority = {r.priority : r \in tasks}
        /\ \A s \in DOMAIN st.by_status :
              /\ st.by_status[s] = Cardinality({r \in tasks : r.status = s})
              /\ st.by_status[s] > 0
        /\ \A p \in DOMAIN st.by_priority :
              /\ st.by_priority[p] = Cardinality({r \in tasks : r.priority = p})
              /\ st.by_priority[p] > 0
        /\ SumValues(st.by_status) = st.total_tasks
        /\ SumValues(st.by_priority) = st.total_tasks

\* Three tasks, two pending and one completed: by_status has the two keys
\* with counts 2 and 1 and no key for in_progress.
C10_Witness ==
    /\ last.op = "STATS"
    /\ last.ret[1].total_tasks = 3
    /\ DOMAIN last.ret[1].by_status = {"pending", "completed"}
    /\ last.ret[1].by_status["pending"] = 2
    /\ last.ret[1].by_status["completed"] = 1

\* C11: creation/read round-trip. A get_task of the id a successful
\* create_task just returned, with no request in between, returns a record
\* equal to the created one in id, title, description, status, priority and
\* created_at; a status the payload omitted reads "pending" and a priority
\* it omitted reads "medium".
C11_RoundTrip ==
    [][(/\ last.op = "POST" /\ last.code = 201
        /\ last'.op = "GET" /\ last'.id = last.id) =>
          LET created == last.ret[1]
              payload == last.arg
          IN  /\ last'.svc = "record"
              /\ last'.code = 200
              /\ Len(last'.ret) = 1
              /\ \A f \in FieldNames \cup {"id", "created_at"} :
                    last'.ret[1][f] = created[f]
              /\ payload.status = Absent => last'.ret[1].status = "pending"
              /\ payload.priority = Absent => last'.ret[1].priority = "medium"
              /\ payload.status # Absent => last'.ret[1].status = payload.status
              /\ payload.priority # Absent =>
                    last'.ret[1].priority = payload.priority
              /\ last'.ret[1].title = payload.title]_vars

\* A get_task returned a task that still carries both creation defaults
\* (under Spec no update can set "pending" or "medium") and was never updated
\* later than it was created.
C11_Witness ==
    /\ last.op = "GET" /\ last.code = 200
    /\ last.ret[1].status = "pending"
    /\ last.ret[1].priority = "medium"
    /\ last.ret[1].description = ""
    /\ last.ret[1].title = "A"

\* C12: timestamp ordering. Every stored task has updated_at >= created_at;
\* an update that commits leaves created_at alone and sets updated_at to the
\* time of the update.
C12_TimestampOrdering ==
    /\ [](\A r \in tasks : r.updated_at >= r.created_at)
    /\ [][(last'.op = "PUT" /\ last'.svc = "record") =>
             /\ Row(tasks', last'.id).created_at
                   = Row(tasks, last'.id).created_at
             /\ Row(tasks', last'.id).updated_at = clock'
             /\ Row(tasks', last'.id).updated_at
                   >= Row(tasks, last'.id).updated_at]_vars

\* A task created while the clock moved between its two defaults, and a
\* task updated later than it was created.
C12_Witness ==
    /\ last.op \in {"POST", "PUT"} /\ last.svc = "record"
    /\ \E r \in tasks : r.id = last.id /\ r.updated_at > r.created_at

\* C14: CSV export completeness. The export answers 200 with the header row
\* id,title,description,status,priority,created_at,updated_at followed by
\* exactly one row per stored task, in ascending id order (the order of
\* all()), each row carrying its task's fields in the header's order.
C14_CsvExportComplete ==
    last.op = "CSV" =>
        /\ last.code = 200
        /\ Len(last.ret) = 1 + Cardinality(tasks)
        /\ last.ret[1] = <<"id", "title", "description", "status", "priority",
                           "created_at", "updated_at">>
        /\ \A r \in tasks :
              LET k == 2 + Cardinality({o \in tasks : o.id < r.id})
                  line == last.ret[k]
              IN  /\ Len(line) = 7
                  /\ line[1] = ToString(r.id)
                  /\ line[2] = (IF r.title = Null THEN "" ELSE r.title)
                  /\ line[3] = (IF r.description = Null THEN ""
                                ELSE r.description)
                  /\ line[4] = r.status
                  /\ line[5] = r.priority
                  /\ line[6] = "T" \o ToString(r.created_at)
                  /\ line[7] = "T" \o ToString(r.updated_at)

\* An export of three tasks: the header and three rows.
C14_Witness ==
    /\ last.op = "CSV"
    /\ Cardinality(tasks) = 3
    /\ Len(last.ret) = 4
    /\ last.ret[4][1] = "3"

\* An export of an empty table: the header alone.
C14_WitnessEmpty ==
    /\ last.op = "CSV" /\ tasks = {} /\ Len(last.ret) = 1

\* C13: per-request session scoping. A request that has ended, normally,
\* with 404, with a validation failure or with an exception of the storage,
\* has no open session, and every session get_db opened is eventually closed.
C13_SessionScoping ==
    /\ \A w \in Workers :
          [](workers[w].pc = "done" => workers[w].session = "closed")
    /\ \A w \in Workers :
          (workers[w].session = "open") ~> (workers[w].session = "closed")

\* An update ended because its commit raised, the row having been deleted by
\* the other request after the update had loaded it; both sessions are
\* closed.
C13_Witness ==
    \E a \in Workers, b \in Workers :
        /\ workers[a].pc = "done" /\ workers[a].svc = "raise"
        /\ workers[a].code = 500 /\ workers[a].session = "closed"
        /\ workers[a].body.status # Null
        /\ workers[b].pc = "done" /\ workers[b].code = 204
        /\ workers[b].session = "closed"

\* C15: concurrent deletion. Of two delete_task requests for the same id in
\* flight together, at most one answers 204 and the other answers 404.
C15_OneDeleteSucceeds ==
    \A a \in Workers : \A b \in Workers \ {a} :
        (/\ workers[a].op = "DELETE" /\ workers[b].op = "DELETE"
         /\ workers[a].id = workers[b].id
         /\ workers[a].pc \in {"exit", "done"}
         /\ workers[b].pc \in {"exit", "done"}) =>
            {workers[a].code, workers[b].code} = {204, 404}

\* The fields a request body carries.
Carried(body) == {f \in FieldNames : body[f] # Absent}

\* C16: concurrent updates of disjoint fields. Once two update_task requests
\* on the same task whose payloads share no field have both committed, the
\* stored task holds every value either payload carries; and the commit of
\* an update changes no field its payload does not carry.
C16_DisjointUpdatesKept ==
    /\ [](\A a \in Workers : \A b \in Workers \ {a} :
            (/\ workers[a].op = "PUT" /\ workers[b].op = "PUT"
             /\ workers[a].id = workers[b].id
             /\ workers[a].svc = "record" /\ workers[b].svc = "record"
             /\ Carried(workers[a].body) \cap Carried(workers[b].body) = {}) =>
                \E r \in tasks :
                    /\ r.id = workers[a].id
                    /\ \A f \in Carried(workers[a].body) :
                          r[f] = workers[a].body[f]
                    /\ \A f \in Carried(workers[b].body) :
                          r[f] = workers[b].body[f])
    /\ [][\A w \in Workers :
             (/\ workers[w].pc = "fetched" /\ workers[w].op = "PUT"
              /\ workers'[w].svc = "record") =>
                \A f \in FieldNames \ Carried(workers[w].body) :
                    Row(tasks', workers[w].id)[f] = Row(tasks, workers[w].id)[f]
          ]_vars

\* Both requests loaded the same version of the task, so each fetched before
\* either committed; one set the title and the other the status, and the
\* stored task holds both.
C16_Witness ==
    \E a \in Workers, b \in Workers :
        /\ workers[a].svc = "record" /\ workers[b].svc = "record"
        /\ workers[a].task = workers[b].task
        /\ Carried(workers[a].body) = {"title"}
        /\ Carried(workers[b].body) = {"status"}
        /\ \E r \in tasks : r.title = "B" /\ r.status = "completed"
====
